---- MODULE Spec2Model ----
(***************************************************************************)
(* Model of the scrape-orchestration client of linkedinscraper             *)
(* (src/src/lib/apify.ts): the retrying transport apifyFetchWithRetry, the *)
(* key ledger of ApifyService (currentKeyIndex, keyUsageStats), the        *)
(* request wrapper makeApifyRequest, the poll loop waitForRunCompletion,   *)
(* the batch loop scrapeProfiles and the result reader getDatasetItems.    *)
(*                                                                         *)
(* Error messages are sequences of text fragments; a fragment is either    *)
(* a word the code searches for or text that holds none of those words,    *)
(* so String.includes(w) is "some fragment equals w" (case-sensitive, as   *)
(* in JavaScript: the fragment "QUOTA_EXCEEDED" is not the word "quota").  *)
(* Time is in milliseconds.                                                *)
(***************************************************************************)
EXTENDS Integers, Sequences, FiniteSets, TLC

\* ----- bounds of the model ------------------------------------------------
MaxKeys == 2
MaxPolls == 3
MaxReads == 2

\* ----- program constants --------------------------------------------------
retries == 3
BATCH_SIZE == 25
maxWaitTime == 15 * 60 * 1000
pollInterval == 8000

VARIABLES
    apiKeys,            \* ApifyService.apiKeys: the ordered credential list
    currentKeyIndex,    \* ApifyService.currentKeyIndex (0-based)
    keyUsageStats,      \* ApifyService.keyUsageStats: key -> [used, failed]
    combinedResults,    \* ApifyService._combinedResults ("undefined" or a sequence)
    pc,                 \* where the asynchronous call in progress is suspended
    profileUrls,        \* scrapeProfiles: the argument
    batchIndex,         \* scrapeProfiles: loop variable (0-based)
    allResults,         \* scrapeProfiles: allResults
    processedProfiles,  \* scrapeProfiles: processedProfiles
    progress,           \* the onProgress invocations of the run, in order
    handledAt,          \* history: how many batches had completed at each onProgress invocation
    outcome,            \* how the last call ended: [kind, ...]
    elapsed,            \* waitForRunCompletion: Date.now() - startTime
    polls,              \* status checks issued so far in the run
    waitPolls,          \* status checks issued by the current waitForRunCompletion
    lastReq,            \* history: the last top-level makeApifyRequest call
    batchSwitches,      \* history: successful key switches while the current batch is processed
    batchRetries,       \* history: quota-caused retries while the current batch is processed
    runAllQuota,        \* history: every transport call of the run ended QUOTA_EXCEEDED
    runCalls,           \* history: transport calls of the run per key
    sawJobFail,         \* history: a status check of the current wait returned FAILED/ABORTED
    lastPollErr,        \* history: the error the last step caught in waitForRunCompletion, if any
    lastBatchErr,       \* history: the error the last step caught in the batch catch, if any
    submitted,          \* history: the batches whose job submission was requested, in order
    fetched,            \* history: [batch, data] of every dataset fetch of the run that succeeded
    delays,             \* history: the batches after which the inter-batch delay was taken
    runQuota,           \* history: some transport call of the run ended QUOTA_EXCEEDED
    reads,              \* history: the caller's getDatasetItems calls, in order
    sawSucceeded,       \* history: a status check of the current wait returned SUCCEEDED
    runNo,              \* history: scrapeProfiles calls made on the service so far
    runsLog,            \* history: [id, items] of every run that returned, in order
    episode,            \* history: the keys refused for quota since the last successful call
    lastSwitch,         \* history: the last switchToNextApiKey call
    \* --- the App component (src/unnamed/part_001) ---
    isScraping,         \* React state isScraping
    seenScraping,       \* isScraping as the running handleScrape closure captured it
    canCancelScraping,  \* React state canCancelScraping
    currentJobId,       \* React state currentJobId ("null" or a job id)
    job,                \* the stored job of the handleScrape call
    scrapeUrls,         \* handleScrape: urls
    urlIndex,           \* handleScrape: loop variable i
    urlResults,         \* React state urlResults: the status of each URL
    scrapeResults,      \* handleScrape: allResults
    totalResultsCount,  \* handleScrape: totalResultsCount
    apc,                \* where handleScrape is suspended
    started,            \* history: the URLs (indices) whose scraping was requested
    unitData,           \* history: the records retrieved for each URL that completed
    cancelAt,           \* history: the index of the URL in progress when cancel was pressed
    localProfiles,      \* loadUserData: localProfiles
    supabaseProfiles,   \* loadUserData: supabaseProfiles
    mergedProfiles      \* loadUserData: mergedProfiles

vars == <<apiKeys, currentKeyIndex, keyUsageStats, combinedResults, pc, profileUrls,
          batchIndex, allResults, processedProfiles, progress, handledAt, outcome, elapsed, polls,
          waitPolls, lastReq, batchSwitches, batchRetries, runAllQuota, runCalls, sawJobFail,
          lastPollErr, lastBatchErr, submitted, fetched, delays, runQuota, reads,
          sawSucceeded, runNo, runsLog, episode, lastSwitch,
          isScraping, seenScraping, canCancelScraping, currentJobId, job, scrapeUrls,
          urlIndex, urlResults, scrapeResults, totalResultsCount, apc, started, unitData,
          cancelAt, localProfiles, supabaseProfiles, mergedProfiles>>

ledgerHist == <<episode, lastSwitch>>
mergeVars == <<localProfiles, supabaseProfiles, mergedProfiles>>
appVars == <<isScraping, seenScraping, canCancelScraping, currentJobId, job, scrapeUrls,
             urlIndex, urlResults, scrapeResults, totalResultsCount, apc, started, unitData,
             cancelAt>>

\* ----- error messages -------------------------------------------------------
QUOTA_EXCEEDED == <<"QUOTA_EXCEEDED">>
MsgHttpError == <<"Apify API error ">>
MsgRequestTimeout == <<"Apify API request timeout. The service may be slow to respond. Please try again.">>
MsgCannotReach == <<"Cannot reach Apify API. Please check your internet connection and try again.">>
MsgOtherFetchError == <<"fetch rejected">>
MsgMaxRetries == <<"Max retries exceeded for Apify API call">>
MsgAllKeysExhausted ==
    <<"All API keys have reached their ", "quota", " limits. Please wait for ", "quota",
      " reset or add more API keys.">>
MsgRunFailed == <<"Apify run ", "failed">>
MsgRunAborted == <<"Apify run ", "aborted">>
MsgRunTimedOut == <<"Apify run timed out after 15 minutes">>

includes(msg, word) == \E n \in DOMAIN msg : msg[n] = word
Wrap(prefix, msg) == <<prefix>> \o msg

\* ----- the network: what one fetch() attempt yields ---------------------------
\* An HTTP response (status, and whether the body holds one of the words
\* quota / limit / usage) or a rejected promise.
HttpResponse(status, body) == [type |-> "http", status |-> status, body |-> body]
Rejection(name) == [type |-> name]
Responses ==
    { HttpResponse(200, "none"), HttpResponse(402, "usage"), HttpResponse(429, "quota"),
      HttpResponse(429, "none"), HttpResponse(404, "none"), HttpResponse(500, "none"),
      Rejection("AbortError"), Rejection("FailedToFetch"), Rejection("OtherError") }
Scripts == [1..retries -> Responses]

ResponseOk(r) == r.type = "http" /\ r.status >= 200 /\ r.status <= 299

\* Variant: only 429 is taken for a quota answer.
IsQuotaResponse_Only429(r) ==
    /\ r.type = "http"
    /\ r.status = 429
    /\ r.body \in {"quota", "limit", "usage"}

IsQuotaResponse(r) ==
    /\ r.type = "http"
    /\ r.status = 402 \/ r.status = 429
    /\ r.body \in {"quota", "limit", "usage"}
\* Variant: only "not found" counts as a client error.
IsClientError_Only404(r) == r.type = "http" /\ r.status = 404
IsClientError(r) == r.type = "http" /\ r.status >= 400 /\ r.status < 500
BackoffDelay(i) == (2 ^ i) * 1000

\* How one apifyFetchWithRetry call ends: Ok or the message of the error thrown,
\* the number of fetch() attempts made and the backoff delays slept, in order.
Ok == <<"ok">>
FetchOutcome(out, attempts, sleeps) == [out |-> out, attempts |-> attempts, sleeps |-> sleeps]

RECURSIVE FetchLoop(_, _, _)

\* Variant: a timed-out attempt is rethrown at once instead of retried.
FetchLoop_NoAbortRetry(resp, i, sleeps) ==
    IF i >= retries THEN FetchOutcome(MsgMaxRetries, i, sleeps)
    ELSE LET r == resp[i + 1]
             last == (i = retries - 1)
             backoff == IF i < retries - 1 THEN Append(sleeps, BackoffDelay(i)) ELSE sleeps
         IN  IF r.type = "http" THEN
                 IF ResponseOk(r) THEN FetchOutcome(Ok, i + 1, sleeps)
                 ELSE IF IsQuotaResponse(r) THEN FetchOutcome(QUOTA_EXCEEDED, i + 1, sleeps)
                 ELSE IF IsClientError(r) THEN FetchOutcome(MsgHttpError, i + 1, sleeps)
                 ELSE IF last THEN FetchOutcome(MsgHttpError, i + 1, sleeps)
                 ELSE FetchLoop(resp, i + 1, sleeps)
             ELSE IF r.type = "AbortError" THEN FetchOutcome(MsgRequestTimeout, i + 1, sleeps)
             ELSE IF r.type = "FailedToFetch" THEN
                 IF last THEN FetchOutcome(MsgCannotReach, i + 1, sleeps)
                 ELSE FetchLoop(resp, i + 1, backoff)
             ELSE FetchOutcome(MsgOtherFetchError, i + 1, sleeps)

FetchLoop(resp, i, sleeps) ==
    IF i >= retries THEN FetchOutcome(MsgMaxRetries, i, sleeps)
    ELSE LET r == resp[i + 1]
             last == (i = retries - 1)
             backoff == IF i < retries - 1 THEN Append(sleeps, BackoffDelay(i)) ELSE sleeps
         IN  IF r.type = "http" THEN
                 IF ResponseOk(r) THEN FetchOutcome(Ok, i + 1, sleeps)
                 ELSE IF IsQuotaResponse(r) THEN FetchOutcome(QUOTA_EXCEEDED, i + 1, sleeps)
                 ELSE IF IsClientError(r) THEN FetchOutcome(MsgHttpError, i + 1, sleeps)
                 ELSE IF last THEN FetchOutcome(MsgHttpError, i + 1, sleeps)
                 ELSE FetchLoop(resp, i + 1, sleeps)
             ELSE IF r.type = "AbortError" THEN
                 IF last THEN FetchOutcome(MsgRequestTimeout, i + 1, sleeps)
                 ELSE FetchLoop(resp, i + 1, backoff)
             ELSE IF r.type = "FailedToFetch" THEN
                 IF last THEN FetchOutcome(MsgCannotReach, i + 1, sleeps)
                 ELSE FetchLoop(resp, i + 1, backoff)
             ELSE FetchOutcome(MsgOtherFetchError, i + 1, sleeps)

apifyFetchWithRetry(resp) == FetchLoop(resp, 0, <<>>)

\* The scripts whose attempts all get the same answer.
UniformScripts == { [i \in 1..retries |-> r] : r \in Responses }

\* ----- the key ledger ---------------------------------------------------------
Token(i) == 1000 + i
KeyList(k) == [i \in 1..k |-> Token(i)]
\* Variant: every request carries the first key of the list.
getCurrentApiKey_First(idx) == apiKeys[1]
getCurrentApiKey(idx) == apiKeys[idx + 1]

\* switchToNextApiKey: the new currentKeyIndex and the value returned.
switchToNextApiKey(idx) ==
    LET next == (idx + 1) % Len(apiKeys)
    IN  [idx |-> next, ok |-> next # idx]

\* Variant: a failure is counted as a use.
updateKeyStats_AlwaysUsed(stats, apiKey, success) ==
    IF apiKey \in DOMAIN stats
    THEN [stats EXCEPT ![apiKey].used = @ + 1]
    ELSE stats

updateKeyStats(stats, apiKey, success) ==
    IF apiKey \in DOMAIN stats
    THEN IF success
         THEN [stats EXCEPT ![apiKey].used = @ + 1]
         ELSE [stats EXCEPT ![apiKey].failed = @ + 1]
    ELSE stats

\* makeApifyRequest with the ledger (idx, stats) and the answers the network
\* gives to this call (Head(rs)) and to its retry after a key switch.  Yields
\* the ledger afterwards, the result (Ok or the message of the error thrown),
\* the transport calls made (key sent as bearer token, answers, outcome) and
\* how often switchToNextApiKey was called and returned true.
RequestResult(idx, stats, out, calls, switchCalls, switched) ==
    [idx |-> idx, stats |-> stats, out |-> out, calls |-> calls,
     switchCalls |-> switchCalls, switched |-> switched]

RECURSIVE makeApifyRequest(_, _, _, _)

\* Variant: any failed request switches the key and is retried.
makeApifyRequest_SwitchOnAnyError(idx, stats, rs, canSwitchKey) ==
    LET currentKey == getCurrentApiKey(idx)
        f == apifyFetchWithRetry(Head(rs))
        call == [key |-> currentKey, resp |-> Head(rs), fetch |-> f]
    IN  IF f.out = Ok
        THEN RequestResult(idx, updateKeyStats(stats, currentKey, TRUE), Ok, <<call>>, 0, 0)
        ELSE LET st == updateKeyStats(stats, currentKey, FALSE)
             IN  IF canSwitchKey
                 THEN LET sw == switchToNextApiKey(idx)
                      IN  IF sw.ok
                          THEN LET r == makeApifyRequest(sw.idx, st, Tail(rs), FALSE)
                               IN  RequestResult(r.idx, r.stats, r.out, <<call>> \o r.calls,
                                                 r.switchCalls + 1, r.switched + 1)
                          ELSE RequestResult(sw.idx, st, MsgAllKeysExhausted, <<call>>, 1, 0)
                 ELSE RequestResult(idx, st, f.out, <<call>>, 0, 0)

\* Variant: the retry after a key switch may switch again (while answers remain).
makeApifyRequest_SwitchAgain(idx, stats, rs, canSwitchKey) ==
    LET currentKey == getCurrentApiKey(idx)
        f == apifyFetchWithRetry(Head(rs))
        call == [key |-> currentKey, resp |-> Head(rs), fetch |-> f]
    IN  IF f.out = Ok
        THEN RequestResult(idx, updateKeyStats(stats, currentKey, TRUE), Ok, <<call>>, 0, 0)
        ELSE LET st == updateKeyStats(stats, currentKey, FALSE)
             IN  IF f.out = QUOTA_EXCEEDED /\ Len(rs) > 1
                 THEN LET sw == switchToNextApiKey(idx)
                      IN  IF sw.ok
                          THEN LET r == makeApifyRequest(sw.idx, st, Tail(rs), TRUE)
                               IN  RequestResult(r.idx, r.stats, r.out, <<call>> \o r.calls,
                                                 r.switchCalls + 1, r.switched + 1)
                          ELSE RequestResult(sw.idx, st, MsgAllKeysExhausted, <<call>>, 1, 0)
                 ELSE RequestResult(idx, st, f.out, <<call>>, 0, 0)

makeApifyRequest(idx, stats, rs, canSwitchKey) ==
    LET currentKey == getCurrentApiKey(idx)
        f == apifyFetchWithRetry(Head(rs))
        call == [key |-> currentKey, resp |-> Head(rs), fetch |-> f]
    IN  IF f.out = Ok
        THEN RequestResult(idx, updateKeyStats(stats, currentKey, TRUE), Ok, <<call>>, 0, 0)
        ELSE LET st == updateKeyStats(stats, currentKey, FALSE)
             IN  IF f.out = QUOTA_EXCEEDED /\ canSwitchKey
                 THEN LET sw == switchToNextApiKey(idx)
                      IN  IF sw.ok
                          THEN LET r == makeApifyRequest(sw.idx, st, Tail(rs), FALSE)
                               IN  RequestResult(r.idx, r.stats, r.out, <<call>> \o r.calls,
                                                 r.switchCalls + 1, r.switched + 1)
                          ELSE RequestResult(sw.idx, st, MsgAllKeysExhausted, <<call>>, 1, 0)
                 ELSE RequestResult(idx, st, f.out, <<call>>, 0, 0)

NoRequest == [kind |-> "none"]
NoError == [kind |-> "none"]
RequestRecord(kind, batch, at, idx, r) ==
    [kind |-> kind, batch |-> batch, at |-> at, startIdx |-> idx, out |-> r.out, calls |-> r.calls,
     switchCalls |-> r.switchCalls, switched |-> r.switched, endIdx |-> r.idx]

\* ----- the service after construction ------------------------------------------
ZeroStats(keys) == [k \in {keys[i] : i \in DOMAIN keys} |-> [used |-> 0, failed |-> 0]]

NoEpisode == [start |-> -1, failed |-> {}]
NoSwitch == [kind |-> "none"]
NoJob == [status |-> "none"]

\* The App before handleScrape is called (all but isScraping).
IdleApp ==
    /\ seenScraping = FALSE
    /\ canCancelScraping = FALSE
    /\ currentJobId = "null"
    /\ job = NoJob
    /\ scrapeUrls = <<>>
    /\ urlIndex = 0
    /\ urlResults = <<>>
    /\ scrapeResults = <<>>
    /\ totalResultsCount = 0
    /\ apc = "idle"
    /\ started = <<>>
    /\ unitData = <<>>
    /\ cancelAt = -1

IdleService ==
    /\ combinedResults = "undefined"
    /\ profileUrls = <<>>
    /\ batchIndex = 0
    /\ allResults = <<>>
    /\ processedProfiles = 0
    /\ progress = <<>>
    /\ handledAt = <<>>
    /\ outcome = [kind |-> "none"]
    /\ elapsed = 0
    /\ polls = 0
    /\ waitPolls = 0
    /\ lastReq = NoRequest
    /\ batchSwitches = 0
    /\ batchRetries = 0
    /\ runAllQuota = TRUE
    /\ runCalls = [k \in {} |-> 0]
    /\ sawJobFail = FALSE
    /\ lastPollErr = NoError
    /\ lastBatchErr = NoError
    /\ submitted = <<>>
    /\ fetched = <<>>
    /\ delays = <<>>
    /\ runQuota = FALSE
    /\ reads = <<>>
    /\ sawSucceeded = FALSE
    /\ runNo = 0
    /\ runsLog = <<>>
    /\ episode = NoEpisode
    /\ lastSwitch = NoSwitch

\* loadUserData has not been called.
IdleMerge ==
    /\ localProfiles = <<>>
    /\ supabaseProfiles = <<>>
    /\ mergedProfiles = <<>>

IdleRun == IdleService /\ IdleApp /\ IdleMerge /\ isScraping = FALSE

runVars == <<combinedResults, profileUrls, batchIndex, allResults, processedProfiles,
             progress, handledAt, outcome, elapsed, polls, waitPolls, batchSwitches, batchRetries,
             runAllQuota, runCalls, sawJobFail, lastPollErr, lastBatchErr, submitted,
             fetched, delays, runQuota, reads>>

\* ----- one top-level makeApifyRequest call, with every answer of the network ----
InitRequest ==
    /\ \E k \in 1..MaxKeys : apiKeys = KeyList(k)
    /\ currentKeyIndex \in 0..(Len(apiKeys) - 1)
    /\ keyUsageStats = ZeroStats(apiKeys)
    /\ pc = "request"
    /\ IdleRun

TopLevelRequest ==
    /\ pc = "request"
    /\ \E r1 \in Scripts, r2 \in UniformScripts :
         \E r \in {makeApifyRequest(currentKeyIndex, keyUsageStats, <<r1, r2, r2>>, TRUE)} :
             /\ currentKeyIndex' = r.idx
             /\ keyUsageStats' = r.stats
             /\ lastReq' = RequestRecord("request", 0, 0, currentKeyIndex, r)
    /\ pc' = "requestDone"
    /\ UNCHANGED <<sawSucceeded, runNo, runsLog, ledgerHist, appVars, mergeVars>>
    /\ UNCHANGED <<apiKeys, combinedResults, profileUrls, batchIndex, allResults,
                   processedProfiles, progress, handledAt, outcome, elapsed, polls, waitPolls,
                   batchSwitches, batchRetries, runAllQuota, runCalls, sawJobFail,
                   lastPollErr, lastBatchErr, submitted, fetched, delays, runQuota, reads>>

NextRequest == TopLevelRequest
SpecRequest == InitRequest /\ [][NextRequest]_vars

\* ----- scrapeProfiles on a fresh service ------------------------------------------
UrlCounts == {0, 1, 26}
Urls(n) == [i \in 1..n |-> i]
\* The answers of the network to the requests of a run: every attempt succeeds,
\* every attempt is refused for quota, every attempt is a server error.
MainScripts ==
    { [i \in 1..retries |-> r] :
        r \in {HttpResponse(200, "none"), HttpResponse(429, "quota"), HttpResponse(500, "none")} }
\* How long one checkRunStatus call takes.
CheckDurations == {0, 440000}
Statuses == {"RUNNING", "SUCCEEDED", "FAILED", "ABORTED"}
\* The records a provider dataset of batch b may hold.
Record(b, j) == [batch |-> b, item |-> j]
Datasets(b) == { <<>>, <<Record(b, 1), Record(b, 2)>> }

Min(a, b) == IF a < b THEN a ELSE b

\* for (i = 0; i < profileUrls.length; i += BATCH_SIZE) batches.push(slice(i, i + BATCH_SIZE))
RECURSIVE Partition(_, _)

\* Variant: the loop runs while i <= profileUrls.length.
Partition_InclusiveBound(urls, i) ==
    IF i <= Len(urls)
    THEN <<SubSeq(urls, i + 1, Min(i + BATCH_SIZE, Len(urls)))>> \o Partition(urls, i + BATCH_SIZE)
    ELSE <<>>

\* Variant: a slice takes one URL too many.
Partition_Overlap(urls, i) ==
    IF i < Len(urls)
    THEN <<SubSeq(urls, i + 1, Min(i + BATCH_SIZE + 1, Len(urls)))>> \o Partition(urls, i + BATCH_SIZE)
    ELSE <<>>

Partition(urls, i) ==
    IF i < Len(urls)
    THEN <<SubSeq(urls, i + 1, Min(i + BATCH_SIZE, Len(urls)))>> \o Partition(urls, i + BATCH_SIZE)
    ELSE <<>>

batches == Partition(profileUrls, 0)

\* Variant: the callback receives what is left to do.
ProgressReport_Remaining(processed, urls) == <<processed, Len(urls) - processed>>

\* onProgress(processedProfiles, profileUrls.length): the pair the callback receives.
ProgressReport(processed, urls) == <<processed, Len(urls)>>

\* Variant: the records of a batch are put in front.
push_Front(all, batchResults) == batchResults \o all

\* allResults.push(...batchResults)
push(all, batchResults) == all \o batchResults

\* Variant: the counter counts the records received.
Processed_CountsRecords(processed, batch, batchResults) == processed + Len(batchResults)

\* processedProfiles += batch.length
Processed(processed, batch, batchResults) == processed + Len(batch)

\* The ids of result sets: `combined-${Date.now()}` of a finished run, and the
\* defaultDatasetId of a provider job. Date.now() is one of Stamps.
Stamps == {1, 2}
SyntheticId(now) == <<"combined-", now>>
ProviderId(b) == <<"dataset-", b>>
startsWith(id, prefix) == id[1] = prefix
\* Date.now() of the last run that returned (0: none yet); a later run returns later.
LastStamp == IF runsLog = <<>> THEN 0 ELSE runsLog[Len(runsLog)].id[2]

Init ==
    /\ \E k \in 1..MaxKeys : apiKeys = KeyList(k)
    /\ currentKeyIndex = 0
    /\ keyUsageStats = ZeroStats(apiKeys)
    /\ pc = "idle"
    /\ IdleRun

\* The bookkeeping every makeApifyRequest call of a run shares.
CountCalls(counts, calls) ==
    [k \in DOMAIN counts |-> counts[k] + Cardinality({n \in DOMAIN calls : calls[n].key = k})]

RequestEffects(kind, r) ==
    /\ currentKeyIndex' = r.idx
    /\ keyUsageStats' = r.stats
    /\ lastReq' = RequestRecord(kind, batchIndex, elapsed, currentKeyIndex, r)
    /\ runAllQuota' = (runAllQuota /\ \A n \in DOMAIN r.calls : r.calls[n].fetch.out = QUOTA_EXCEEDED)
    /\ runCalls' = CountCalls(runCalls, r.calls)
    /\ runQuota' = (runQuota \/ \E n \in DOMAIN r.calls : r.calls[n].fetch.out = QUOTA_EXCEEDED)

\* Variant: every batch error is skipped.
BatchCatch_AlwaysSkip(msg, phase) ==
    /\ lastBatchErr' = [kind |-> "error", msg |-> msg, batch |-> batchIndex, phase |-> phase]
    /\ batchIndex' = batchIndex + 1
    /\ pc' = "loop"
    /\ UNCHANGED outcome

\* The catch of the batch body (apify.ts 282-291) and, for what it rethrows, the
\* outer catch (302-308).
BatchCatch(msg, phase) ==
    /\ lastBatchErr' = [kind |-> "error", msg |-> msg, batch |-> batchIndex, phase |-> phase]
    /\ IF includes(msg, "quota")
       THEN /\ batchIndex' = batchIndex + 1
            /\ pc' = "loop"
            /\ UNCHANGED outcome
       ELSE /\ pc' = "done"
            /\ outcome' = [kind |-> "error", msg |-> Wrap("Failed to scrape profiles: ", msg)]
            /\ UNCHANGED batchIndex

\* Variant: a run that fails stores what it collected so far.
CombinedResultsAfter_AlsoOnError(cache, out, results) ==
    IF out.kind \in {"returned", "error"} THEN results ELSE cache

\* this._combinedResults after a step of scrapeProfiles: written only on the way to
\* return mockDatasetId (apify.ts 298-301), not in the catch blocks.
CombinedResultsAfter(cache, out, results) ==
    IF out.kind = "returned" THEN results ELSE cache

\* scrapeProfiles is called with a list of one of the given lengths.
BeginRun(counts) ==
    /\ \E n \in counts : profileUrls' = Urls(n)
    /\ allResults' = <<>>
    /\ processedProfiles' = 0
    /\ batchIndex' = 0
    /\ progress' = <<>>
    /\ handledAt' = <<>>
    /\ outcome' = [kind |-> "running"]
    /\ runAllQuota' = TRUE
    /\ runCalls' = [k \in DOMAIN keyUsageStats |-> 0]
    /\ pc' = "loop"
    /\ polls' = 0
    /\ submitted' = <<>>
    /\ fetched' = <<>>
    /\ delays' = <<>>
    /\ runQuota' = FALSE
    /\ sawSucceeded' = FALSE
    /\ runNo' = runNo + 1
    /\ UNCHANGED <<runsLog, ledgerHist, appVars, mergeVars>>
    /\ UNCHANGED <<apiKeys, currentKeyIndex, keyUsageStats, combinedResults, elapsed, waitPolls,
                   lastReq, batchSwitches, batchRetries, sawJobFail, lastPollErr, lastBatchErr,
                   reads>>

StartRunOf(counts) == pc = "idle" /\ BeginRun(counts)
StartRun == StartRunOf(UrlCounts)

\* Top of the batch loop: report progress, submit the job of the batch; the network
\* answers the request with scripts of the given set.
SubmitBatchOn(scripts) ==
    /\ pc = "loop"
    /\ batchIndex < Len(batches)
    /\ progress' = Append(progress, ProgressReport(processedProfiles, profileUrls))
    /\ handledAt' = Append(handledAt, batchIndex)
    /\ submitted' = Append(submitted, batchIndex)
    /\ \E r1 \in scripts, r2 \in scripts :
         \E r \in {makeApifyRequest(currentKeyIndex, keyUsageStats, <<r1, r2, r2>>, TRUE)} :
             /\ RequestEffects("submit", r)
             /\ batchSwitches' = r.switched
             /\ batchRetries' = Len(r.calls) - 1
             /\ IF r.out = Ok
                THEN /\ pc' = "poll"
                     /\ lastBatchErr' = NoError
                     /\ UNCHANGED <<batchIndex, outcome>>
                ELSE BatchCatch(r.out, "submit")
    /\ elapsed' = 0
    /\ waitPolls' = 0
    /\ sawJobFail' = FALSE
    /\ lastPollErr' = NoError
    /\ sawSucceeded' = FALSE
    /\ UNCHANGED <<runNo, runsLog, ledgerHist, appVars, mergeVars>>
    /\ UNCHANGED <<apiKeys, profileUrls, allResults, processedProfiles, polls,
                   fetched, delays, reads>>
    /\ combinedResults' = CombinedResultsAfter(combinedResults, outcome', allResults')

SubmitBatch == SubmitBatchOn(MainScripts)

\* Variant: the catch rethrows only once the whole budget is spent.
PollCatch_LateThreshold(msg, t) ==
    IF t >= maxWaitTime
    THEN /\ lastPollErr' = [kind |-> "error", msg |-> msg, at |-> t]
         /\ elapsed' = t
         /\ BatchCatch(msg, "poll")
    ELSE /\ lastPollErr' = [kind |-> "error", msg |-> msg, at |-> t]
         /\ elapsed' = t + pollInterval
         /\ lastBatchErr' = NoError
         /\ UNCHANGED <<pc, batchIndex, outcome>>

\* Variant: the catch goes straight back to the loop head, without the wait.
PollCatch_NoWait(msg, t) ==
    IF t >= maxWaitTime - pollInterval
    THEN /\ lastPollErr' = [kind |-> "error", msg |-> msg, at |-> t]
         /\ elapsed' = t
         /\ BatchCatch(msg, "poll")
    ELSE /\ lastPollErr' = [kind |-> "error", msg |-> msg, at |-> t]
         /\ elapsed' = t
         /\ lastBatchErr' = NoError
         /\ UNCHANGED <<pc, batchIndex, outcome>>

\* The catch of the poll loop (apify.ts 331-337) for an error caught at time t.
PollCatch(msg, t) ==
    IF t >= maxWaitTime - pollInterval
    THEN /\ lastPollErr' = [kind |-> "error", msg |-> msg, at |-> t]
         /\ elapsed' = t
         /\ BatchCatch(msg, "poll")
    ELSE /\ lastPollErr' = [kind |-> "error", msg |-> msg, at |-> t]
         /\ elapsed' = t + pollInterval
         /\ lastBatchErr' = NoError
         /\ UNCHANGED <<pc, batchIndex, outcome>>

\* One iteration of the poll loop: the status check, and the wait that follows.
PollIterationOn(scripts, durations, statuses) ==
    /\ pc = "poll"
    /\ elapsed < maxWaitTime
    /\ polls < MaxPolls
    /\ polls' = polls + 1
    /\ waitPolls' = waitPolls + 1
    /\ \E r1 \in scripts, r2 \in scripts, d \in durations, status \in statuses :
         \E r \in {makeApifyRequest(currentKeyIndex, keyUsageStats, <<r1, r2, r2>>, TRUE)},
            t \in {elapsed + d} :
             /\ RequestEffects("poll", r)
             /\ batchSwitches' = batchSwitches + r.switched
             /\ batchRetries' = batchRetries + Len(r.calls) - 1
             /\ IF r.out # Ok
                THEN /\ PollCatch(Wrap("Failed to check run status: ", r.out), t)
                     /\ UNCHANGED <<sawJobFail, sawSucceeded>>
                ELSE IF status = "SUCCEEDED"
                THEN /\ pc' = "fetch"
                     /\ elapsed' = t
                     /\ lastPollErr' = NoError
                     /\ lastBatchErr' = NoError
                     /\ sawSucceeded' = TRUE
                     /\ UNCHANGED <<batchIndex, outcome, sawJobFail>>
                ELSE IF status = "FAILED"
                THEN /\ PollCatch(MsgRunFailed, t)
                     /\ sawJobFail' = TRUE
                     /\ UNCHANGED sawSucceeded
                ELSE IF status = "ABORTED"
                THEN /\ PollCatch(MsgRunAborted, t)
                     /\ sawJobFail' = TRUE
                     /\ UNCHANGED sawSucceeded
                ELSE /\ elapsed' = t + pollInterval
                     /\ lastPollErr' = NoError
                     /\ lastBatchErr' = NoError
                     /\ UNCHANGED <<pc, batchIndex, outcome, sawJobFail, sawSucceeded>>
    /\ UNCHANGED <<runNo, runsLog, ledgerHist, appVars, mergeVars>>
    /\ UNCHANGED <<apiKeys, profileUrls, allResults, processedProfiles,
                   progress, handledAt, submitted, fetched, delays, reads>>
    /\ combinedResults' = CombinedResultsAfter(combinedResults, outcome', allResults')

PollIteration == PollIterationOn(MainScripts, CheckDurations, Statuses)

\* The loop condition fails: throw new Error('Apify run timed out after 15 minutes').
PollTimeout ==
    /\ pc = "poll"
    /\ elapsed >= maxWaitTime
    /\ BatchCatch(MsgRunTimedOut, "timeout")
    /\ lastPollErr' = NoError
    /\ UNCHANGED <<sawSucceeded, runNo, runsLog, ledgerHist, appVars, mergeVars>>
    /\ UNCHANGED <<apiKeys, currentKeyIndex, keyUsageStats, profileUrls,
                   allResults, processedProfiles, progress, handledAt, elapsed, polls, waitPolls,
                   lastReq, batchSwitches, batchRetries, runAllQuota, runCalls, sawJobFail,
                   submitted, fetched, delays, runQuota, reads>>
    /\ combinedResults' = CombinedResultsAfter(combinedResults, outcome', allResults')

\* getDatasetItems of the batch's dataset, append, count, report, next batch.
FetchBatchOn(scripts) ==
    /\ pc = "fetch"
    /\ \E r1 \in scripts, r2 \in scripts, data \in Datasets(batchIndex) :
         \E r \in {makeApifyRequest(currentKeyIndex, keyUsageStats, <<r1, r2, r2>>, TRUE)} :
             /\ RequestEffects("fetch", r)
             /\ batchSwitches' = batchSwitches + r.switched
             /\ batchRetries' = batchRetries + Len(r.calls) - 1
             /\ IF r.out = Ok
                THEN /\ allResults' = push(allResults, data)
                     /\ fetched' = Append(fetched, [batch |-> batchIndex, data |-> data])
                     /\ processedProfiles' = Processed(processedProfiles, batches[batchIndex + 1], data)
                     /\ progress' = Append(progress, ProgressReport(processedProfiles', profileUrls))
                     /\ handledAt' = Append(handledAt, batchIndex + 1)
                     /\ delays' = IF batchIndex < Len(batches) - 1
                                  THEN Append(delays, batchIndex)
                                  ELSE delays
                     /\ batchIndex' = batchIndex + 1
                     /\ pc' = "loop"
                     /\ lastBatchErr' = NoError
                     /\ UNCHANGED outcome
                ELSE /\ BatchCatch(Wrap("Failed to fetch dataset items: ", r.out), "fetch")
                     /\ UNCHANGED <<allResults, processedProfiles, progress, handledAt, fetched, delays>>
    /\ lastPollErr' = NoError
    /\ UNCHANGED <<sawSucceeded, runNo, runsLog, ledgerHist, appVars, mergeVars>>
    /\ UNCHANGED <<apiKeys, profileUrls, elapsed, polls, waitPolls,
                   sawJobFail, submitted, reads>>
    /\ combinedResults' = CombinedResultsAfter(combinedResults, outcome', allResults')

FetchBatch == FetchBatchOn(MainScripts)

\* After the last batch: cache the combined result, return the synthetic id.
FinishRun ==
    /\ pc = "loop"
    /\ batchIndex >= Len(batches)
    /\ \E now \in Stamps :
         /\ now > LastStamp
         /\ outcome' = [kind |-> "returned", id |-> SyntheticId(now)]
    /\ pc' = "done"
    /\ lastPollErr' = NoError
    /\ lastBatchErr' = NoError
    /\ runsLog' = Append(runsLog, [id |-> outcome'.id, items |-> allResults])
    /\ UNCHANGED <<sawSucceeded, runNo, ledgerHist, appVars, mergeVars>>
    /\ UNCHANGED <<apiKeys, currentKeyIndex, keyUsageStats, profileUrls, batchIndex, allResults,
                   processedProfiles, progress, handledAt, elapsed, polls, waitPolls, lastReq,
                   batchSwitches, batchRetries, runAllQuota, runCalls, sawJobFail,
                   submitted, fetched, delays, runQuota, reads>>
    /\ combinedResults' = CombinedResultsAfter(combinedResults, outcome', allResults')

Returned == pc = "done" /\ outcome.kind = "returned"

\* ----- getDatasetItems, called by the caller of the service -----------------------
\* The provider holds the datasets of the jobs it ran and nothing under another id.
ProviderHolds(id) == id[1] = "dataset-"
UnknownId == <<"unknown-", 0>>
\* The answers of the network to an items request: as for any request when the
\* provider holds the dataset, and never a success when it does not.
NotFoundScripts ==
    { [i \in 1..retries |-> r] :
        r \in {HttpResponse(404, "none"), HttpResponse(429, "quota"), HttpResponse(500, "none")} }
AnswersFor(id) == IF ProviderHolds(id) THEN MainScripts ELSE NotFoundScripts
ItemsOf(id) == IF ProviderHolds(id) THEN Datasets(id[2]) ELSE {<<>>}

\* Variant: the cache is never looked at.
UsesCache_Never(id, cache) == FALSE

\* Variant: an empty cached result counts as no cache.
UsesCache_EmptyIsNone(id, cache) ==
    startsWith(id, "combined-") /\ cache # "undefined" /\ cache # <<>>

\* datasetId.startsWith('combined-') && this._combinedResults
UsesCache(id, cache) == startsWith(id, "combined-") /\ cache # "undefined"

\* One getDatasetItems call as the caller sees it: the id, how the call ended, the
\* items returned, the transport calls made, and whether the id was the one the
\* last scrapeProfiles run of this service returned.
ReadRecord(id, out, items, calls) ==
    [id |-> id, out |-> out, items |-> items, calls |-> calls,
     issued |-> (outcome.kind = "returned" /\ outcome.id = id)]

\* getDatasetItems(id), called once a run has ended, with or without a result.
GetDatasetItemsOf(id) ==
    /\ pc = "done"
    /\ Len(reads) < MaxReads
    /\ IF UsesCache(id, combinedResults)
       THEN /\ reads' = Append(reads, ReadRecord(id, Ok, combinedResults, 0))
            /\ UNCHANGED <<currentKeyIndex, keyUsageStats, lastReq>>
       ELSE \E r1 \in AnswersFor(id), r2 \in AnswersFor(id), data \in ItemsOf(id) :
              \E r \in {makeApifyRequest(currentKeyIndex, keyUsageStats, <<r1, r2, r2>>, TRUE)} :
                  /\ currentKeyIndex' = r.idx
                  /\ keyUsageStats' = r.stats
                  /\ lastReq' = RequestRecord("read", 0, 0, currentKeyIndex, r)
                  /\ reads' = Append(reads,
                        IF r.out = Ok
                        THEN ReadRecord(id, Ok, data, Len(r.calls))
                        ELSE ReadRecord(id, Wrap("Failed to fetch dataset items: ", r.out),
                                        <<>>, Len(r.calls)))
    /\ UNCHANGED <<sawSucceeded, runNo, runsLog, ledgerHist, appVars, mergeVars>>
    /\ UNCHANGED <<apiKeys, combinedResults, pc, profileUrls, batchIndex, allResults,
                   processedProfiles, progress, handledAt, outcome, elapsed, polls, waitPolls,
                   batchSwitches, batchRetries, runAllQuota, runCalls, sawJobFail,
                   lastPollErr, lastBatchErr, submitted, fetched, delays, runQuota>>

\* The caller of a run that returned reads the result under the id it was given.
ReadResult ==
    /\ Returned
    /\ reads = <<>>
    /\ GetDatasetItemsOf(outcome.id)

Next ==
    \/ StartRun
    \/ SubmitBatch
    \/ PollIteration
    \/ PollTimeout
    \/ FetchBatch
    \/ FinishRun
    \/ ReadResult

Spec == Init /\ [][Next]_vars

\* ----- scrapeProfiles of a list of three batches ---------------------------------
\* The network answers every attempt of a request alike, with success or with a
\* server error.
LongUrlCounts == {60}
LongScripts ==
    { [i \in 1..retries |-> r] : r \in {HttpResponse(200, "none"), HttpResponse(500, "none")} }

StartLongRun == StartRunOf(LongUrlCounts)
SubmitLongBatch == SubmitBatchOn(LongScripts)
PollLongIteration == PollIterationOn(LongScripts, CheckDurations, Statuses)
FetchLongBatch == FetchBatchOn(LongScripts)

NextLongRun ==
    \/ StartLongRun
    \/ SubmitLongBatch
    \/ PollLongIteration
    \/ PollTimeout
    \/ FetchLongBatch
    \/ FinishRun

SpecLongRun == Init /\ [][NextLongRun]_vars

\* ----- a run of at most one batch, and getDatasetItems with any id ----------------
ShortUrlCounts == {0, 1}
DatasetIds == {SyntheticId(now) : now \in Stamps} \cup {ProviderId(0), UnknownId}

\* The run before the reads: the network answers its requests with success or with a
\* server error and a status check takes no time, so that the wait never times out.
StartShortRun == StartRunOf(ShortUrlCounts)
PollShortIteration == PollIterationOn(LongScripts, {0}, Statuses)
GetDatasetItems == \E id \in DatasetIds : GetDatasetItemsOf(id)

NextDataset ==
    \/ StartShortRun
    \/ SubmitLongBatch
    \/ PollShortIteration
    \/ FetchLongBatch
    \/ FinishRun
    \/ GetDatasetItems

SpecDataset == Init /\ [][NextDataset]_vars

\* ----- a service used for several requests and forced key switches ----------------
MaxCalls == 3

RECURSIVE SumOver(_, _)
SumOver(f, S) == IF S = {} THEN 0 ELSE LET x == CHOOSE y \in S : TRUE IN f[x] + SumOver(f, S \ {x})

\* The calls the ledger has counted so far.
TotalCalls(stats) == SumOver([k \in DOMAIN stats |-> stats[k].used + stats[k].failed], DOMAIN stats)

\* indexOf(key) + 1: the first position of the key in apiKeys.
IndexOf(key) == CHOOSE i \in DOMAIN apiKeys : apiKeys[i] = key /\ \A j \in 1..(i - 1) : apiKeys[j] # key

\* Variant: every key is reported active.
getUsageStats_AllActive(idx, stats) ==
    [n \in {IndexOf(k) : k \in DOMAIN stats} |->
        [used |-> stats[apiKeys[n]].used, failed |-> stats[apiKeys[n]].failed, isActive |-> TRUE]]

\* getUsageStats: the entry 'Key n' of each key of the ledger.
getUsageStats(idx, stats) ==
    [n \in {IndexOf(k) : k \in DOMAIN stats} |->
        [used |-> stats[apiKeys[n]].used, failed |-> stats[apiKeys[n]].failed,
         isActive |-> (apiKeys[n] = getCurrentApiKey(idx))]]

\* The keys refused for quota since the last call that succeeded, after one more call.
EpisodeAfter(ep, idx, out) ==
    IF out = Ok THEN NoEpisode
    ELSE IF out = QUOTA_EXCEEDED
    THEN [start |-> IF ep.start = -1 THEN idx ELSE ep.start, failed |-> ep.failed \cup {idx}]
    ELSE IF ep.start = -1 THEN ep ELSE [ep EXCEPT !.failed = @ \cup {idx}]

SwitchRecord(from, sw, ep) ==
    [kind |-> "switch", from |-> from, to |-> sw.idx, ok |-> sw.ok, start |-> ep.start,
     failed |-> ep.failed]

InitLedger ==
    /\ \E k \in 1..MaxKeys : apiKeys = KeyList(k)
    /\ currentKeyIndex = 0
    /\ keyUsageStats = ZeroStats(apiKeys)
    /\ pc = "ledger"
    /\ IdleRun

LedgerRequest ==
    /\ pc = "ledger"
    /\ TotalCalls(keyUsageStats) < MaxCalls
    /\ \E r1 \in UniformScripts, r2 \in UniformScripts :
         \E r \in {makeApifyRequest(currentKeyIndex, keyUsageStats, <<r1, r2, r2>>, TRUE)} :
             LET e1 == EpisodeAfter(episode, currentKeyIndex, r.calls[1].fetch.out)
             IN  /\ currentKeyIndex' = r.idx
                 /\ keyUsageStats' = r.stats
                 /\ lastReq' = RequestRecord("request", 0, 0, currentKeyIndex, r)
                 /\ lastSwitch' = IF r.switchCalls = 1
                                  THEN SwitchRecord(currentKeyIndex,
                                                    [idx |-> r.idx, ok |-> r.switched = 1], e1)
                                  ELSE lastSwitch
                 /\ episode' = IF Len(r.calls) = 2
                               THEN EpisodeAfter(e1, r.idx, r.calls[2].fetch.out)
                               ELSE e1
    /\ UNCHANGED <<sawSucceeded, runNo, runsLog, appVars, mergeVars>>
    /\ UNCHANGED <<apiKeys, combinedResults, pc, profileUrls, batchIndex, allResults,
                   processedProfiles, progress, handledAt, outcome, elapsed, polls, waitPolls,
                   batchSwitches, batchRetries, runAllQuota, runCalls, sawJobFail,
                   lastPollErr, lastBatchErr, submitted, fetched, delays, runQuota, reads>>

ForceKeySwitch ==
    /\ pc = "ledger"
    /\ \E sw \in {switchToNextApiKey(currentKeyIndex)} :
         /\ currentKeyIndex' = sw.idx
         /\ lastSwitch' = SwitchRecord(currentKeyIndex, sw, episode)
    /\ UNCHANGED <<sawSucceeded, runNo, runsLog, episode, appVars, mergeVars>>
    /\ UNCHANGED <<apiKeys, keyUsageStats, combinedResults, pc, profileUrls, batchIndex,
                   allResults, processedProfiles, progress, handledAt, outcome, elapsed,
                   polls, waitPolls, lastReq, batchSwitches, batchRetries, runAllQuota,
                   runCalls, sawJobFail, lastPollErr, lastBatchErr, submitted, fetched,
                   delays, runQuota, reads>>

NextLedger == LedgerRequest \/ ForceKeySwitch
SpecLedger == InitLedger /\ [][NextLedger]_vars

\* ----- several successful runs on one service, and reads of the ids they returned ----
OkScripts == { [i \in 1..retries |-> HttpResponse(200, "none")] }

StartFirstRun == StartRunOf(ShortUrlCounts)
\* scrapeProfiles called again on the service whose last run returned.
StartNextRun ==
    /\ Returned
    /\ runNo < Cardinality(Stamps)
    /\ BeginRun(ShortUrlCounts)
SubmitOkBatch == SubmitBatchOn(OkScripts)
PollOkIteration == PollIterationOn(OkScripts, {0}, {"RUNNING", "SUCCEEDED"})
FetchOkBatch == FetchBatchOn(OkScripts)
\* getDatasetItems with the id some run of this service returned.
ReadIssuedId == \E m \in DOMAIN runsLog : GetDatasetItemsOf(runsLog[m].id)

NextRuns ==
    \/ StartFirstRun
    \/ StartNextRun
    \/ SubmitOkBatch
    \/ PollOkIteration
    \/ FetchOkBatch
    \/ FinishRun
    \/ ReadIssuedId

SpecRuns == Init /\ [][NextRuns]_vars

\* ----- handleScrape and handleCancelScraping of the App component ------------------
\* handleScrape is created anew by every render and reads the isScraping of the render
\* that created it; seenScraping is that value. It is false for the handler the enabled
\* submit button calls (the button is disabled while isScraping is true); true is the
\* value in a render made while a scrape is in progress, the case the check at the top of
\* the loop is written for.
AppUrlCounts == {1, 2, 3}
\* What scraping one URL gives: the records of getDatasetItems.
UnitDatasets(i) == { <<>>, <<Record(i, 1), Record(i, 2)>> }

\* prev.map((result, index) => index === i ? {...result, status} : result)
SetStatus(results, i, status) ==
    [k \in DOMAIN results |-> IF k = i + 1 THEN status ELSE results[k]]

serviceVars ==
    <<apiKeys, currentKeyIndex, keyUsageStats, combinedResults, pc, profileUrls, batchIndex,
      allResults, processedProfiles, progress, handledAt, outcome, elapsed, polls, waitPolls,
      lastReq, batchSwitches, batchRetries, runAllQuota, runCalls, sawJobFail, lastPollErr,
      lastBatchErr, submitted, fetched, delays, runQuota, reads, sawSucceeded, runNo, runsLog,
      episode, lastSwitch>>

InitApp ==
    /\ apiKeys = KeyList(1)
    /\ currentKeyIndex = 0
    /\ keyUsageStats = ZeroStats(apiKeys)
    /\ pc = "app"
    /\ IdleService
    /\ IdleApp
    /\ IdleMerge
    /\ isScraping \in BOOLEAN

\* handleScrape, from its call to the first test of the loop.
StartScrape ==
    /\ apc = "idle"
    /\ \E n \in AppUrlCounts :
         /\ scrapeUrls' = Urls(n)
         /\ urlResults' = [k \in 1..n |-> "pending"]
    /\ seenScraping' = isScraping
    /\ isScraping' = TRUE
    /\ canCancelScraping' = TRUE
    /\ job' = [status |-> "created", resultsCount |-> 0, errorMessage |-> "none"]
    /\ currentJobId' = "job"
    /\ urlIndex' = 0
    /\ scrapeResults' = <<>>
    /\ totalResultsCount' = 0
    /\ apc' = "loop"
    /\ UNCHANGED <<started, unitData, cancelAt>>
    /\ UNCHANGED <<serviceVars, mergeVars>>

\* The top of the loop: for (i < urls.length) { if (!isScraping) break; ... await scrape }
LoopHead ==
    /\ apc = "loop"
    /\ IF urlIndex >= Len(scrapeUrls) \/ ~seenScraping
       THEN /\ apc' = "after"
            /\ UNCHANGED <<urlResults, started>>
       ELSE /\ urlResults' = SetStatus(urlResults, urlIndex, "processing")
            /\ started' = Append(started, urlIndex)
            /\ apc' = "unit"
    /\ UNCHANGED <<isScraping, seenScraping, canCancelScraping, currentJobId, job, scrapeUrls,
                   urlIndex, scrapeResults, totalResultsCount, unitData, cancelAt>>
    /\ UNCHANGED <<serviceVars, mergeVars>>

\* The scrape of the URL and getDatasetItems return.
UnitReturns ==
    /\ apc = "unit"
    /\ \E data \in UnitDatasets(urlIndex) :
         /\ scrapeResults' = scrapeResults \o data
         /\ totalResultsCount' = totalResultsCount + Len(data)
         /\ unitData' = Append(unitData, [index |-> urlIndex, data |-> data])
    /\ urlResults' = SetStatus(urlResults, urlIndex, "completed")
    /\ urlIndex' = urlIndex + 1
    /\ apc' = "loop"
    /\ UNCHANGED <<isScraping, seenScraping, canCancelScraping, currentJobId, job, scrapeUrls,
                   started, cancelAt>>
    /\ UNCHANGED <<serviceVars, mergeVars>>

\* Variant: the failure of one URL ends the loop.
UnitThrows_StopsRun ==
    /\ apc = "unit"
    /\ urlResults' = SetStatus(urlResults, urlIndex, "failed")
    /\ urlIndex' = urlIndex + 1
    /\ apc' = "after"
    /\ UNCHANGED <<isScraping, seenScraping, canCancelScraping, currentJobId, job, scrapeUrls,
                   scrapeResults, totalResultsCount, started, unitData, cancelAt>>
    /\ UNCHANGED <<serviceVars, mergeVars>>

\* The scrape of the URL or getDatasetItems throws: catch (urlError).
UnitThrows ==
    /\ apc = "unit"
    /\ urlResults' = SetStatus(urlResults, urlIndex, "failed")
    /\ urlIndex' = urlIndex + 1
    /\ apc' = "loop"
    /\ UNCHANGED <<isScraping, seenScraping, canCancelScraping, currentJobId, job, scrapeUrls,
                   scrapeResults, totalResultsCount, started, unitData, cancelAt>>
    /\ UNCHANGED <<serviceVars, mergeVars>>

\* After the loop: the job is saved as completed, then the finally block.
AfterLoop ==
    /\ apc = "after"
    /\ job' = [status |-> "completed", resultsCount |-> totalResultsCount,
               errorMessage |-> "none"]
    /\ isScraping' = FALSE
    /\ canCancelScraping' = FALSE
    /\ currentJobId' = "null"
    /\ apc' = "done"
    /\ UNCHANGED <<seenScraping, scrapeUrls, urlIndex, urlResults, scrapeResults,
                   totalResultsCount, started, unitData, cancelAt>>
    /\ UNCHANGED <<serviceVars, mergeVars>>

\* handleScrapeSelectedCommenterProfiles, up to its await of scrapeProfiles; its button is
\* disabled while isScraping.
StartScrapeSelected ==
    /\ apc = "idle"
    /\ ~isScraping
    /\ isScraping' = TRUE
    /\ canCancelScraping' = TRUE
    /\ job' = [status |-> "created", resultsCount |-> 0, errorMessage |-> "none"]
    /\ currentJobId' = "job"
    /\ apc' = "selected"
    /\ UNCHANGED <<seenScraping, scrapeUrls, urlIndex, urlResults, scrapeResults,
                   totalResultsCount, started, unitData, cancelAt>>
    /\ UNCHANGED <<serviceVars, mergeVars>>

\* scrapeProfiles and getDatasetItems return: the job is saved as completed; finally.
SelectedReturns ==
    /\ apc = "selected"
    /\ \E data \in UnitDatasets(0) :
         /\ scrapeResults' = data
         /\ job' = [status |-> "completed", resultsCount |-> Len(data), errorMessage |-> "none"]
    /\ isScraping' = FALSE
    /\ canCancelScraping' = FALSE
    /\ currentJobId' = "null"
    /\ apc' = "selectedDone"
    /\ UNCHANGED <<seenScraping, scrapeUrls, urlIndex, urlResults, totalResultsCount, started,
                   unitData, cancelAt>>
    /\ UNCHANGED <<serviceVars, mergeVars>>

\* scrapeProfiles or getDatasetItems throws: the job is saved as failed; finally.
SelectedThrows ==
    /\ apc = "selected"
    /\ job' = [status |-> "failed", resultsCount |-> 0, errorMessage |-> "error"]
    /\ isScraping' = FALSE
    /\ canCancelScraping' = FALSE
    /\ currentJobId' = "null"
    /\ apc' = "selectedDone"
    /\ UNCHANGED <<seenScraping, scrapeUrls, urlIndex, urlResults, scrapeResults,
                   totalResultsCount, started, unitData, cancelAt>>
    /\ UNCHANGED <<serviceVars, mergeVars>>

\* The cancel button, shown while isScraping, pressed while a scraping handler awaits.
handleCancelScraping ==
    /\ apc \in {"unit", "selected"}
    /\ isScraping
    /\ canCancelScraping
    /\ job' = IF currentJobId # "null"
              THEN [job EXCEPT !.status = "failed", !.errorMessage = "Cancelled by user"]
              ELSE job
    /\ isScraping' = FALSE
    /\ canCancelScraping' = FALSE
    /\ currentJobId' = "null"
    /\ urlResults' = <<>>
    /\ cancelAt' = urlIndex
    /\ UNCHANGED <<seenScraping, scrapeUrls, urlIndex, scrapeResults, totalResultsCount, apc,
                   started, unitData>>
    /\ UNCHANGED <<serviceVars, mergeVars>>

NextApp ==
    \/ StartScrape
    \/ LoopHead
    \/ UnitReturns
    \/ UnitThrows
    \/ AfterLoop
    \/ StartScrapeSelected
    \/ SelectedReturns
    \/ SelectedThrows
    \/ handleCancelScraping

SpecApp == InitApp /\ [][NextApp]_vars

\* ----- a second scrapeProfiles call on a service, which may fail ---------------------
\* scrapeProfiles called again once the last call has ended, with or without a result.
StartRunAgain ==
    /\ pc = "done"
    /\ runNo < Cardinality(Stamps)
    /\ BeginRun(ShortUrlCounts)

NextRerun ==
    \/ StartFirstRun
    \/ StartRunAgain
    \/ SubmitLongBatch
    \/ PollShortIteration
    \/ FetchLongBatch
    \/ FinishRun

SpecRerun == Init /\ [][NextRerun]_vars

\* ----- mergeProfiles of the App component -----------------------------------------
ProfileUrls == {"u1", "u2"}
\* last_updated strings: "d1" and "d1b" are two spellings of one instant, "d2" is a later
\* instant, "bad" is no date.
Dates == {"d1", "d1b", "d2", "bad"}
ProfileCounts == 0..2

\* new Date(s): the instant of the string, or an invalid date (its value is NaN).
DateValue(s) ==
    [valid |-> s # "bad", time |-> IF s = "d2" THEN 2 ELSE IF s = "bad" THEN 0 ELSE 1]

\* Variant: a remote profile of the same instant also wins.
Newer_OrEqual(a, b) == a.valid /\ b.valid /\ a.time >= b.time

\* new Date(a) > new Date(b): false as soon as one side is NaN.
Newer(a, b) == a.valid /\ b.valid /\ a.time > b.time

\* The lists of n profiles one store can give; profile_data tells the profiles apart.
ProfileLists(store, n) ==
    { [i \in 1..n |-> [linkedin_url |-> us[i], last_updated |-> ds[i],
                        profile_data |-> <<store, i>>]] :
        us \in [1..n -> ProfileUrls], ds \in [1..n -> Dates] }

\* A Map as the sequence of its entries in insertion order.
MapHas(m, k) == \E i \in DOMAIN m : m[i].key = k
MapGet(m, k) == m[CHOOSE i \in DOMAIN m : m[i].key = k].value
MapSet(m, k, v) ==
    IF MapHas(m, k)
    THEN [i \in DOMAIN m |-> IF m[i].key = k THEN [key |-> k, value |-> v] ELSE m[i]]
    ELSE Append(m, [key |-> k, value |-> v])

\* localProfiles.forEach(profile => profileMap.set(profile.linkedin_url, profile))
RECURSIVE SetAll(_, _)
SetAll(m, ps) ==
    IF ps = <<>> THEN m ELSE SetAll(MapSet(m, Head(ps).linkedin_url, Head(ps)), Tail(ps))

\* supabaseProfiles.forEach: set when the URL is new or the remote profile is newer.
RECURSIVE SetNewer(_, _)
SetNewer(m, ps) ==
    IF ps = <<>> THEN m
    ELSE LET p == Head(ps)
             url == p.linkedin_url
         IN  IF ~MapHas(m, url)
                \/ Newer(DateValue(p.last_updated), DateValue(MapGet(m, url).last_updated))
             THEN SetNewer(MapSet(m, url, p), Tail(ps))
             ELSE SetNewer(m, Tail(ps))

\* Array.from(profileMap.values())
mergeProfiles(locals, remotes) ==
    LET m == SetNewer(SetAll(<<>>, locals), remotes)
    IN  [i \in DOMAIN m |-> m[i].value]

InitMerge ==
    /\ apiKeys = KeyList(1)
    /\ currentKeyIndex = 0
    /\ keyUsageStats = ZeroStats(apiKeys)
    /\ pc = "merge"
    /\ IdleService
    /\ IdleApp
    /\ isScraping = FALSE
    /\ \E n \in ProfileCounts : localProfiles \in ProfileLists("local", n)
    /\ \E n \in ProfileCounts : supabaseProfiles \in ProfileLists("supabase", n)
    /\ mergedProfiles = <<>>

\* const mergedProfiles = mergeProfiles(localProfiles, supabaseProfiles)
MergeProfiles ==
    /\ pc = "merge"
    /\ mergedProfiles' = mergeProfiles(localProfiles, supabaseProfiles)
    /\ pc' = "merged"
    /\ UNCHANGED <<localProfiles, supabaseProfiles, appVars>>
    /\ UNCHANGED <<apiKeys, currentKeyIndex, keyUsageStats, combinedResults, profileUrls,
                   batchIndex, allResults, processedProfiles, progress, handledAt, outcome,
                   elapsed, polls, waitPolls, lastReq, batchSwitches, batchRetries, runAllQuota,
                   runCalls, sawJobFail, lastPollErr, lastBatchErr, submitted, fetched, delays,
                   runQuota, reads, sawSucceeded, runNo, runsLog, episode, lastSwitch>>

NextMerge == MergeProfiles
SpecMerge == InitMerge /\ [][NextMerge]_vars

\* ===== Properties ================================================================
Calls == IF lastReq.kind = "none" THEN <<>> ELSE lastReq.calls
RunError(msg) == [kind |-> "error", msg |-> Wrap("Failed to scrape profiles: ", msg)]
BatchFailed == lastBatchErr.kind = "error"
QuotaRelated(msg) == includes(msg, "quota")
Transient(r) == r.type \in {"AbortError", "FailedToFetch"} \/ (r.type = "http" /\ r.status >= 500)

\* C1: when every credential answers QuotaExceeded, a run ends in the
\* all-credentials-exhausted failure after having tried each credential exactly once
\* (for one credential: the single quota failure fails the run).
C1_AllKeysTriedThenExhausted ==
    (pc = "done" /\ runAllQuota /\ Len(profileUrls) > 0)
        => /\ outcome = RunError(MsgAllKeysExhausted)
           /\ \A k \in DOMAIN runCalls : runCalls[k] = 1

\* C2: a submission that hits a quota error is retried once with the next credential
\* when there is one, and the batch goes on if the retry succeeds; when no other
\* credential is available the whole run fails.
C2_QuotaSubmitRotatesOrFails ==
    (lastReq.kind = "submit" /\ lastReq.calls[1].fetch.out = QUOTA_EXCEEDED)
        => IF Len(apiKeys) > 1
           THEN /\ lastReq.switched = 1
                /\ Len(lastReq.calls) = 2
                /\ lastReq.calls[2].key = apiKeys[((lastReq.startIdx + 1) % Len(apiKeys)) + 1]
                /\ lastReq.calls[2].fetch.out = Ok => (pc = "poll" /\ batchIndex = lastReq.batch)
           ELSE pc = "done" /\ outcome.kind = "error"

\* C3 (as claimed): while one batch is processed there is at most one key switch and
\* at most one quota-caused retry.
C3_OneSwitchPerBatch == batchSwitches <= 1 /\ batchRetries <= 1

\* C3 (amended): each makeApifyRequest call (the submission, each status check, the
\* dataset fetch) makes at most one key switch and at most one retry, the retry
\* being caused by a quota error of its first transport call.
C3_OneSwitchPerRequest ==
    lastReq.kind # "none"
        => /\ lastReq.switchCalls <= 1
           /\ lastReq.switched <= 1
           /\ Len(lastReq.calls) <= 2
           /\ Len(lastReq.calls) = 2
                => (lastReq.switched = 1 /\ lastReq.calls[1].fetch.out = QUOTA_EXCEEDED)

C3_Witness ==
    /\ lastReq.kind = "poll"
    /\ lastReq.switched = 1
    /\ batchSwitches = 2
    /\ batchRetries = 2

\* C4 (as claimed): a batch error that is not quota-related skips the batch and the
\* run goes on with the next batch.
C4_NonQuotaErrorSkipsBatch ==
    (BatchFailed /\ ~QuotaRelated(lastBatchErr.msg))
        => /\ pc = "loop"
           /\ batchIndex = lastBatchErr.batch + 1
           /\ outcome.kind = "running"

\* C4 (amended): a batch error that is not quota-related (a poll timeout and a
\* FAILED/ABORTED job that leaves the poll loop included) ends the run: scrapeProfiles
\* fails with that error, no later batch is submitted, no combined result is stored.
C4_NonQuotaErrorEndsRun ==
    (BatchFailed /\ ~QuotaRelated(lastBatchErr.msg))
        => /\ pc = "done"
           /\ outcome = RunError(lastBatchErr.msg)
           /\ batchIndex = lastBatchErr.batch
           /\ lastReq.batch = lastBatchErr.batch
           /\ combinedResults = "undefined"

C4_Witness ==
    /\ BatchFailed
    /\ lastBatchErr.phase = "timeout"
    /\ lastBatchErr.batch = 0
    /\ Len(batches) = 2
    /\ pc = "done"

\* C5: a status check that returns FAILED or ABORTED ends waitForRunCompletion with
\* the run-failed / run-aborted error; no further status check is made.
C5_FailedStatusIsTerminal ==
    sawJobFail
        => /\ pc # "poll"
           /\ pc # "fetch"
           /\ lastPollErr.kind = "error"
           /\ lastPollErr.msg \in {MsgRunFailed, MsgRunAborted}

\* C6: an error of a status check caught before maxWaitTime - pollInterval leaves
\* the loop running, the next check coming one pollInterval later; caught at or after
\* that time it leaves waitForRunCompletion and reaches the caller.
C6_PollErrorPropagatesOnlyNearDeadline ==
    (lastPollErr.kind = "error" /\ lastReq.out # Ok)
        => IF lastPollErr.at < maxWaitTime - pollInterval
           THEN /\ pc = "poll"
                /\ elapsed = lastPollErr.at + pollInterval
                /\ ~BatchFailed
           ELSE /\ pc # "poll"
                /\ BatchFailed
                /\ lastBatchErr.phase = "poll"
                /\ lastBatchErr.msg = lastPollErr.msg

C6_Witness ==
    /\ lastPollErr.kind = "error"
    /\ lastReq.out # Ok
    /\ lastPollErr.at >= maxWaitTime - pollInterval
    /\ lastPollErr.at < maxWaitTime
    /\ waitPolls = 3

\* C7 (as claimed): a wait that ends with the budget spent and no terminal status
\* seen ends with the poll-timeout error.
C7_BudgetSpentMeansPollTimeout ==
    (BatchFailed /\ lastBatchErr.phase \in {"poll", "timeout"} /\ ~sawJobFail
       /\ elapsed >= maxWaitTime)
        => lastBatchErr.msg = MsgRunTimedOut

\* C7 (amended): waitForRunCompletion terminates: every loop iteration takes at least
\* pollInterval, no status check starts once maxWaitTime has elapsed, and with the
\* budget spent at the loop head the call fails with the poll-timeout error; a wait
\* that fails after the budget fails with that error or with the error of the status
\* check that was in flight when the budget ran out.
C7_PollLoopEndsWithinBudget ==
    /\ pc = "poll" => elapsed >= waitPolls * pollInterval
    /\ lastReq.kind = "poll" => lastReq.at < maxWaitTime
    /\ (pc = "poll" /\ elapsed >= maxWaitTime) => (ENABLED PollTimeout /\ ~ENABLED PollIteration)
    /\ (BatchFailed /\ lastBatchErr.phase = "timeout")
         => (lastBatchErr.msg = MsgRunTimedOut /\ elapsed >= maxWaitTime /\ pc = "done")
    /\ (BatchFailed /\ lastBatchErr.phase = "poll" /\ elapsed >= maxWaitTime)
         => (lastBatchErr.msg = lastPollErr.msg /\ lastReq.at < maxWaitTime)

C7_Witness ==
    /\ BatchFailed
    /\ lastBatchErr.phase = "timeout"
    /\ ~sawJobFail
    /\ waitPolls >= 2

\* C8: a transport call makes at most `retries` attempts and sleeps 2^i * 1000 ms
\* before every retry, i being the index of the attempt that failed.
C8_BackoffBeforeEveryRetry ==
    \A n \in DOMAIN Calls :
        /\ Calls[n].fetch.attempts <= retries
        /\ Calls[n].fetch.sleeps = [j \in 1..(Calls[n].fetch.attempts - 1) |-> (2 ^ (j - 1)) * 1000]

\* C9: a transport call whose attempts fail transiently until attempt k <= 3 succeeds
\* returns that response; an error of a transient failure surfaces only from the last
\* of 3 attempts that all failed transiently.
C9_TransientErrorsRetriedLocally ==
    \A n \in DOMAIN Calls :
        LET resp == Calls[n].resp
            f == Calls[n].fetch
        IN  /\ \A k \in 1..retries :
                 (ResponseOk(resp[k]) /\ \A j \in 1..(k - 1) : Transient(resp[j]))
                     => (f.out = Ok /\ f.attempts = k)
            /\ (f.out # Ok /\ Transient(resp[f.attempts]))
                 => (f.attempts = retries /\ \A j \in 1..retries : Transient(resp[j]))

C9_Witness ==
    /\ lastReq.kind = "request"
    /\ Calls[1].resp = <<Rejection("AbortError"), Rejection("AbortError"), HttpResponse(200, "none")>>
    /\ Calls[1].fetch.out = Ok
    /\ Calls[1].fetch.attempts = 3

\* C10: a 402/429 answer with quota vocabulary in its body ends the transport call at
\* once with QUOTA_EXCEEDED (one attempt, no backoff), and makeApifyRequest then calls
\* switchToNextApiKey exactly once for that request.
C10_QuotaAnswerNotRetriedOneRotation ==
    (lastReq.kind = "request" /\ Calls[1].resp[1].type = "http"
       /\ Calls[1].resp[1].status \in {402, 429}
       /\ Calls[1].resp[1].body \in {"quota", "limit", "usage"})
        => /\ Calls[1].fetch = FetchOutcome(QUOTA_EXCEEDED, 1, <<>>)
           /\ lastReq.switchCalls = 1
           /\ Len(Calls) <= 2

C10_Witness ==
    /\ lastReq.kind = "request"
    /\ Calls[1].resp[1] = HttpResponse(402, "usage")
    /\ Len(Calls) = 2
    /\ Calls[2].fetch.out = QUOTA_EXCEEDED
    /\ lastReq.switchCalls = 1

\* A 4xx answer without the quota vocabulary of a 402/429 body.
PlainClientError(r) ==
    /\ r.type = "http" /\ r.status \in 400..499
    /\ ~(r.status \in {402, 429} /\ r.body \in {"quota", "limit", "usage"})

\* C11: a 4xx answer that is not a quota answer ends the transport call with the HTTP
\* error at the attempt that received it: no later attempt is made, and when it is the
\* first answer the call has made exactly one attempt and slept no backoff.
C11_ClientErrorNeverRetried ==
    \A n \in DOMAIN Calls :
        LET resp == Calls[n].resp
            f == Calls[n].fetch
        IN  /\ \A k \in 1..retries :
                 (PlainClientError(resp[k]) /\ f.attempts >= k)
                     => (f.out = MsgHttpError /\ f.attempts = k)
            /\ PlainClientError(resp[1])
                 => f = FetchOutcome(MsgHttpError, 1, <<>>)

C11_Witness ==
    /\ lastReq.kind = "request"
    /\ Calls[1].resp = <<HttpResponse(429, "none"), HttpResponse(200, "none"), HttpResponse(200, "none")>>
    /\ Calls[1].fetch = FetchOutcome(MsgHttpError, 1, <<>>)
    /\ Len(Calls) = 1

\* ceil(n / b)
CeilDiv(n, b) == (n + b - 1) \div b
FirstBatches(n) == [i \in 1..n |-> i - 1]

\* C12 as stated: a finished run in which no transport call ended QUOTA_EXCEEDED has
\* requested exactly ceil(N / BATCH_SIZE) job submissions.
C12_SubmissionsAreCeilNoverB ==
    (pc = "done" /\ ~runQuota) => Len(submitted) = CeilDiv(Len(profileUrls), BATCH_SIZE)

\* C12 amended: a run without quota error that returns has requested one submission
\* for each of the ceil(N / BATCH_SIZE) batches, in order; a run without quota error
\* that a batch error ended has requested one for each batch up to the failing one.
C12_SubmissionsUntilReturnOrError ==
    (pc = "done" /\ ~runQuota)
        => IF outcome.kind = "returned"
           THEN submitted = FirstBatches(CeilDiv(Len(profileUrls), BATCH_SIZE))
           ELSE /\ submitted = FirstBatches(lastBatchErr.batch + 1)
                /\ Len(submitted) <= CeilDiv(Len(profileUrls), BATCH_SIZE)

C12_Witness ==
    /\ Returned /\ ~runQuota
    /\ Len(profileUrls) = 26
    /\ submitted = <<0, 1>>

RECURSIVE Flatten(_)
Flatten(ss) == IF ss = <<>> THEN <<>> ELSE Head(ss) \o Flatten(Tail(ss))
Elements(q) == {q[i] : i \in DOMAIN q}

\* C13: the batches of a run are consecutive slices of the URL list: all but the last
\* hold exactly BATCH_SIZE URLs, the last between 1 and BATCH_SIZE, their concatenation
\* is the list, every URL is in exactly one batch; the batches are submitted in order,
\* none twice, and a run that returns has submitted every one of them.
C13_PartitionIsConsecutiveAndConsumedOnce ==
    pc # "idle"
        => /\ \A b \in 1..(Len(batches) - 1) : Len(batches[b]) = BATCH_SIZE
           /\ Len(batches) > 0 => Len(batches[Len(batches)]) \in 1..BATCH_SIZE
           /\ Flatten(batches) = profileUrls
           /\ \A u \in Elements(profileUrls) :
                 Cardinality({b \in DOMAIN batches : u \in Elements(batches[b])}) = 1
           /\ submitted = FirstBatches(Len(submitted))
           /\ Len(submitted) <= Len(batches)
           /\ Returned => Len(submitted) = Len(batches)

C13_Witness ==
    /\ Returned
    /\ batches = <<Urls(25), <<26>>>>
    /\ submitted = <<0, 1>>

\* Every batch of the run was submitted, awaited and fetched with success.
FullSuccess == Returned /\ Len(fetched) = Len(batches)

\* C14: the processed argument never decreases along the onProgress invocations of a
\* run, and when a run of N > 0 URLs returns with every batch fetched, the last
\* invocation reports processed = N.
C14_ProgressMonotoneEndsAtN ==
    /\ \A i, j \in DOMAIN progress : i < j => progress[i][1] <= progress[j][1]
    /\ (FullSuccess /\ Len(profileUrls) > 0) => progress[Len(progress)][1] = Len(profileUrls)

C14_Witness ==
    /\ FullSuccess
    /\ Len(profileUrls) = 26
    /\ Len(progress) = 4
    /\ progress[4] = <<26, 26>>

SixtyAllSucceeded == FullSuccess /\ Len(profileUrls) = 60
ThreeCycles ==
    /\ [b \in DOMAIN batches |-> Len(batches[b])] = <<25, 25, 10>>
    /\ submitted = <<0, 1, 2>>
    /\ [n \in DOMAIN fetched |-> fetched[n].batch] = <<0, 1, 2>>
    /\ polls >= 3

\* C15 as stated: 60 URLs, every batch succeeding: batches of 25, 25 and 10 URLs,
\* three submit/poll/fetch cycles, and the progress reports are exactly
\* (0,60), (25,60), (50,60), (60,60).
C15_SixtyUrlsFourReports ==
    SixtyAllSucceeded
        => /\ ThreeCycles
           /\ progress = << <<0, 60>>, <<25, 60>>, <<50, 60>>, <<60, 60>> >>

\* C15 amended: same run: batches of 25, 25 and 10 URLs, three cycles, and one report
\* before and one after each batch: (0,60), (25,60), (25,60), (50,60), (50,60), (60,60).
C15_SixtyUrlsSixReports ==
    SixtyAllSucceeded
        => /\ ThreeCycles
           /\ progress = << <<0, 60>>, <<25, 60>>, <<25, 60>>, <<50, 60>>, <<50, 60>>, <<60, 60>> >>

C15_Witness ==
    /\ SixtyAllSucceeded
    /\ Len(progress) = 6
    /\ progress[3] = <<25, 60>>
    /\ Len(fetched) = 3

RECURSIVE UrlsOfFirst(_)
\* The number of URLs of the first h batches.
UrlsOfFirst(h) == IF h = 0 THEN 0 ELSE UrlsOfFirst(h - 1) + Len(batches[h])

\* C16: when a run of N > 0 URLs returns, onProgress was invoked first with (0, N),
\* was invoked after each batch completed, fetched or skipped, and each invocation
\* reported the number of URLs of the batches completed until then.
C16_ProgressAfterEveryBatch ==
    (Returned /\ Len(profileUrls) > 0)
        => /\ progress[1] = <<0, Len(profileUrls)>>
           /\ \A h \in 1..Len(batches) : \E n \in DOMAIN handledAt : handledAt[n] = h
           /\ \A n \in DOMAIN progress : progress[n][1] = UrlsOfFirst(handledAt[n])

\* The records of the dataset fetches of the run that succeeded, batch after batch.
FetchedData == Flatten([n \in DOMAIN fetched |-> fetched[n].data])

\* C17: getDatasetItems on the id a run returned gives exactly the records the
\* transport returned for the batches fetched with success, concatenated in batch
\* order.
C17_ResultIsConcatenationOfBatches ==
    /\ \A m, n \in DOMAIN fetched : m < n => fetched[m].batch < fetched[n].batch
    /\ \A n \in DOMAIN reads :
          reads[n].issued => (reads[n].out = Ok /\ reads[n].items = FetchedData)

C17_Witness ==
    /\ Len(reads) = 1 /\ reads[1].issued
    /\ Len(profileUrls) = 26
    /\ reads[1].items = <<Record(0, 1), Record(0, 2), Record(1, 1), Record(1, 2)>>

\* C18: between two consecutive batches the inter-batch delay is taken, and none
\* after the last: when the loop is about to start batch b > 0 the delay was taken
\* after each of the batches 0..b-1, and a run that returns has taken it after every
\* batch but the last.
C18_DelayBetweenConsecutiveBatches ==
    /\ (pc = "loop" /\ batchIndex < Len(batches)) => delays = FirstBatches(batchIndex)
    /\ (Returned /\ Len(batches) > 0) => delays = FirstBatches(Len(batches) - 1)

\* C19: two getDatasetItems calls with the synthetic id the finished run returned
\* both return the cached combined result, the same sequence, and make no transport
\* call.
C19_SyntheticIdReadTwiceFromCache ==
    \A m, n \in DOMAIN reads :
        (m < n /\ reads[m].issued /\ reads[n].issued /\ reads[m].id = reads[n].id)
            => /\ reads[m].out = Ok /\ reads[n].out = Ok
               /\ reads[m].items = reads[n].items
               /\ reads[m].items = combinedResults
               /\ reads[m].calls = 0 /\ reads[n].calls = 0

C19_Witness ==
    /\ Len(reads) = 2
    /\ reads[1].issued /\ reads[2].issued
    /\ reads[1].id = reads[2].id
    /\ reads[1].items = <<Record(0, 1), Record(0, 2)>>
    /\ reads[2].items = <<Record(0, 1), Record(0, 2)>>

\* C20: getDatasetItems with an id that is neither a dataset of the provider nor the
\* synthetic id this service issued fails and returns no records.
C20_UnknownIdFails ==
    \A n \in DOMAIN reads :
        (~ProviderHolds(reads[n].id) /\ ~reads[n].issued)
            => (reads[n].out # Ok /\ reads[n].items = <<>>)

\* The calls of the last request that carried key k and ended the given way.
CallsOf(k, ok) == {n \in DOMAIN Calls : Calls[n].key = k /\ (Calls[n].fetch.out = Ok) = ok}
RECURSIVE TotalAttempts(_)
TotalAttempts(calls) ==
    IF calls = <<>> THEN 0 ELSE Head(calls).fetch.attempts + TotalAttempts(Tail(calls))

\* C27: on a fresh ledger, after a top-level request every key's used counter is the
\* number of makeApifyRequest invocations that began with that key active and
\* succeeded, its failed counter the number that began with it active and failed; the
\* first invocation carries the key active at the start; used + failed over all keys
\* is the number of invocations.
C27_OneCounterPerInvocation ==
    lastReq.kind = "request"
        => /\ Calls[1].key = apiKeys[lastReq.startIdx + 1]
           /\ \A k \in DOMAIN keyUsageStats :
                 /\ keyUsageStats[k].used = Cardinality(CallsOf(k, TRUE))
                 /\ keyUsageStats[k].failed = Cardinality(CallsOf(k, FALSE))
           /\ SumOver([k \in DOMAIN keyUsageStats |->
                          keyUsageStats[k].used + keyUsageStats[k].failed],
                      DOMAIN keyUsageStats) = Len(Calls)

C27_Witness ==
    /\ lastReq.kind = "request"
    /\ Len(apiKeys) = 2 /\ lastReq.startIdx = 1
    /\ Len(Calls) = 2
    /\ keyUsageStats[apiKeys[2]] = [used |-> 0, failed |-> 1]
    /\ keyUsageStats[apiKeys[1]] = [used |-> 1, failed |-> 0]

\* C28: a top-level request makes at most one key switch, at most two transport
\* calls and at most 2 * retries HTTP attempts; a second call is made only after the
\* first ended QUOTA_EXCEEDED, and its result, a quota error included, is final.
C28_AtMostOneSwitchTwoCalls ==
    lastReq.kind = "request"
        => /\ lastReq.switchCalls <= 1 /\ lastReq.switched <= 1
           /\ Len(Calls) <= 2
           /\ TotalAttempts(Calls) <= 2 * retries
           /\ Len(Calls) = 2
                => /\ Calls[1].fetch.out = QUOTA_EXCEEDED
                   /\ lastReq.switched = 1
                   /\ lastReq.out = Calls[2].fetch.out

C28_Witness ==
    /\ lastReq.kind = "request"
    /\ Len(Calls) = 2
    /\ Calls[1].fetch.attempts = 3 /\ Calls[2].fetch.attempts = 3
    /\ Calls[2].fetch.out = MsgHttpError

\* C30: a request whose transport call fails with anything but QUOTA_EXCEEDED (a
\* 402/429 without quota vocabulary included) makes no key switch: one call, the
\* active index as before, the error rethrown as it is, one failure recorded for the
\* active key and nothing for the others.
C30_NonQuotaFailureNoRotation ==
    (lastReq.kind = "request" /\ Calls[1].fetch.out \notin {Ok, QUOTA_EXCEEDED})
        => /\ Len(Calls) = 1
           /\ lastReq.switchCalls = 0
           /\ currentKeyIndex = lastReq.startIdx
           /\ lastReq.out = Calls[1].fetch.out
           /\ \A n \in DOMAIN apiKeys :
                 keyUsageStats[apiKeys[n]] =
                     [used |-> 0, failed |-> IF n = lastReq.startIdx + 1 THEN 1 ELSE 0]

C30_Witness ==
    /\ lastReq.kind = "request"
    /\ Len(apiKeys) = 2 /\ lastReq.startIdx = 1
    /\ Calls[1].resp[1] = HttpResponse(429, "none")
    /\ lastReq.out = MsgHttpError
    /\ currentKeyIndex = 1

\* C21: a key switch moves to the next key of the ring and returns true, except that it
\* returns false and leaves the key unchanged when the next key is the one that was active
\* when the keys began to be refused (every key refused since the last successful call);
\* with a single key it always returns false.
C21_RotationStopsAfterFullCircle ==
    lastSwitch.kind = "switch"
        => LET K == Len(apiKeys)
               next == (lastSwitch.from + 1) % K
               fullCircle == next = lastSwitch.start /\ lastSwitch.failed = 0..(K - 1)
           IN  IF K = 1 \/ fullCircle
               THEN ~lastSwitch.ok /\ lastSwitch.to = lastSwitch.from
               ELSE lastSwitch.ok /\ lastSwitch.to = next

\* C22: the index of the active key is always within the key list, and getUsageStats marks
\* exactly one key as active.
C22_ExactlyOneActive ==
    /\ currentKeyIndex \in 0..(Len(apiKeys) - 1)
    /\ \E r \in {getUsageStats(currentKeyIndex, keyUsageStats)} :
         /\ DOMAIN r = 1..Len(apiKeys)
         /\ Cardinality({n \in DOMAIN r : r[n].isActive}) = 1
         /\ r[currentKeyIndex + 1].isActive

C22_Witness ==
    /\ pc = "ledger"
    /\ Len(apiKeys) = 2
    /\ currentKeyIndex = 1
    /\ lastSwitch.kind = "switch"
    /\ lastSwitch.ok
    /\ getUsageStats(currentKeyIndex, keyUsageStats)[2].isActive
    /\ ~getUsageStats(currentKeyIndex, keyUsageStats)[1].isActive
    /\ TotalCalls(keyUsageStats) = MaxCalls

\* C29: every request starts with the key at the current index; when the request switched
\* the key, its retry carries the key of the new index and that index is the one the next
\* request starts with; the index changes in no other way than by one step of the ring
\* within a request that switched.
C29_SwitchedKeyStays ==
    [][ /\ keyUsageStats' # keyUsageStats
            => /\ lastReq'.kind # "none"
               /\ lastReq'.calls[1].key = apiKeys[currentKeyIndex + 1]
               /\ lastReq'.switched = 1
                    => /\ Len(lastReq'.calls) = 2
                       /\ lastReq'.calls[2].key = apiKeys[currentKeyIndex' + 1]
               /\ lastReq'.switched = 0 => Len(lastReq'.calls) = 1
        /\ currentKeyIndex' # currentKeyIndex
            => /\ keyUsageStats' # keyUsageStats
               /\ lastReq'.switched = 1
               /\ currentKeyIndex' = (currentKeyIndex + 1) % Len(apiKeys)
      ]_vars

\* A status check made with the second key, which an earlier request of the run switched to.
C29_Witness ==
    /\ Len(apiKeys) = 2
    /\ lastReq.kind = "poll"
    /\ lastReq.startIdx = 1
    /\ lastReq.switched = 0
    /\ Calls[1].key = apiKeys[2]
    /\ currentKeyIndex = 1
    /\ runQuota

\* C25 (scrapeProfiles): the dataset of a job is read only after a status check of that job
\* returned SUCCEEDED; a job submission that fails makes the run fail, with no status check
\* and no dataset read for that job.
C25_ReadAfterSuccessSubmitFailureFails ==
    /\ pc = "fetch" => sawSucceeded
    /\ lastReq.kind = "fetch" => sawSucceeded
    /\ (lastReq.kind = "submit" /\ lastReq.out # Ok)
        => /\ pc = "done"
           /\ outcome.kind = "error"
           /\ waitPolls = 0
           /\ \A n \in DOMAIN fetched : fetched[n].batch # lastReq.batch

\* The part of C25 that holds: the read follows a SUCCEEDED status check, and a failed
\* submission is followed by no status check and no read of that job.
C25_ReadOnlyAfterSucceeded ==
    /\ pc = "fetch" => sawSucceeded
    /\ lastReq.kind = "fetch" => sawSucceeded
    /\ (lastReq.kind = "submit" /\ lastReq.out # Ok)
        => /\ pc # "poll" /\ pc # "fetch"
           /\ waitPolls = 0
           /\ \A n \in DOMAIN fetched : fetched[n].batch # lastReq.batch

\* C26: after any number of successful runs on one service, getDatasetItems with the id
\* a run returned yields the records of that run, also when other runs came after it.
C26_ReadYieldsRecordsOfItsRun ==
    \A n \in DOMAIN reads : \A m \in DOMAIN runsLog :
        reads[n].id = runsLog[m].id
            => reads[n].out = Ok /\ reads[n].items = runsLog[m].items

\* The records retrieved for the URLs 0..i that completed, in order.
RECURSIVE RecordsUpTo(_, _)
RecordsUpTo(units, i) ==
    IF units = <<>> THEN <<>>
    ELSE IF Head(units).index <= i THEN Head(units).data \o RecordsUpTo(Tail(units), i)
    ELSE RecordsUpTo(Tail(units), i)

C24_EveryUrlProcessed ==
    (apc = "done" /\ cancelAt = -1)
        => /\ Len(urlResults) = Len(scrapeUrls)
           /\ \A k \in DOMAIN urlResults : urlResults[k] \in {"completed", "failed"}
           /\ started = [k \in 1..Len(scrapeUrls) |-> k - 1]
           /\ \A k \in DOMAIN urlResults :
                urlResults[k] = "completed" <=> \E n \in DOMAIN unitData : unitData[n].index = k - 1
           /\ job.resultsCount = Len(RecordsUpTo(unitData, Len(scrapeUrls)))

\* The part of C24 that holds: a handler that saw isScraping true takes up every URL.
C24_EveryUrlProcessedWhenSeenTrue ==
    seenScraping => C24_EveryUrlProcessed

\* The sizes of the batches whose dataset was read, summed.
RECURSIVE SizeOfFetched(_)
SizeOfFetched(fs) ==
    IF fs = <<>> THEN 0 ELSE Len(batches[Head(fs).batch + 1]) + SizeOfFetched(Tail(fs))

\* C31: at every moment of a run the processed counter is the sum of the sizes of the
\* batches that completed so far; it never exceeds the number of URLs; a batch that was
\* skipped or that failed adds nothing.
C31_ProcessedIsSumOfCompletedBatches ==
    pc # "idle"
        => /\ processedProfiles = SizeOfFetched(fetched)
           /\ processedProfiles <= Len(profileUrls)
           /\ \A n \in DOMAIN fetched : fetched[n].batch < batchIndex
           /\ \A n, m \in DOMAIN fetched : n < m => fetched[n].batch < fetched[m].batch

\* A run of two batches that returned: the first batch was skipped, the second completed.
C31_Witness ==
    /\ Returned
    /\ Len(batches) = 2
    /\ Len(fetched) = 1
    /\ fetched[1].batch = 1
    /\ processedProfiles = 1

\* C32: a run that ends with an error produces no synthetic id and leaves the cached
\* combined result as it was; the cache changes only in the step that ends a run with an id.
C32_ErrorLeavesCacheUnchanged ==
    [][ /\ combinedResults' # combinedResults
            => /\ pc = "loop"
               /\ pc' = "done"
               /\ outcome'.kind = "returned"
               /\ combinedResults' = allResults
        /\ (pc' = "done" /\ outcome'.kind = "error" /\ outcome.kind = "running")
            => /\ combinedResults' = combinedResults
               /\ runsLog' = runsLog
               /\ "id" \notin DOMAIN outcome'
      ]_vars

\* The second run of a service failed; the cache still holds the two records of the first.
C32_Witness ==
    /\ runNo = 2
    /\ pc = "done"
    /\ outcome.kind = "error"
    /\ Len(runsLog) = 1
    /\ Len(runsLog[1].items) = 2
    /\ combinedResults = runsLog[1].items
    /\ allResults = <<>>

\* C33: scrapeProfiles with an empty URL list makes no transport request and no progress
\* report, changes no key counter and returns a synthetic id; getDatasetItems with that id
\* returns the empty sequence without a network call.
C33_EmptyListRun ==
    (pc # "idle" /\ profileUrls = <<>>)
        => /\ batches = <<>>
           /\ pc \in {"loop", "done"}
           /\ outcome.kind \in {"running", "returned"}
           /\ lastReq = NoRequest
           /\ submitted = <<>>
           /\ progress = <<>>
           /\ keyUsageStats = ZeroStats(apiKeys)
           /\ currentKeyIndex = 0
           /\ pc = "done"
                => /\ startsWith(outcome.id, "combined-")
                   /\ \A n \in DOMAIN reads :
                        reads[n].id = outcome.id
                            => /\ reads[n].out = Ok
                               /\ reads[n].items = <<>>
                               /\ reads[n].calls = 0

C33_Witness ==
    /\ profileUrls = <<>>
    /\ Returned
    /\ Len(reads) = 1
    /\ reads[1].id = outcome.id
    /\ reads[1].items = <<>>
    /\ reads[1].calls = 0
    /\ Len(apiKeys) = 2

Thrown == {k \in 0..(urlIndex - 1) : \A n \in DOMAIN unitData : unitData[n].index # k}

UrlsOf(ps) == {ps[i].linkedin_url : i \in DOMAIN ps}
ProfilesAt(ps, url) == {ps[i] : i \in {j \in DOMAIN ps : ps[j].linkedin_url = url}}
\* p is strictly newer than q: both dates are valid and the instant of p is later.
StrictlyNewer(p, q) ==
    /\ p.last_updated # "bad"
    /\ q.last_updated # "bad"
    /\ p.last_updated = "d2"
    /\ q.last_updated # "d2"

\* C36: mergeProfiles returns one profile for every URL of either input and no more; a URL
\* of one input only keeps the profile of that input; for a URL of both inputs the result
\* is the remote profile only when it is strictly newer than the local one, and the local
\* profile when no remote profile is strictly newer.
C36_MergeKeepsNewest ==
    pc = "merged"
        => /\ UrlsOf(mergedProfiles) = UrlsOf(localProfiles) \cup UrlsOf(supabaseProfiles)
           /\ Len(mergedProfiles) = Cardinality(UrlsOf(mergedProfiles))
           /\ \A i \in DOMAIN mergedProfiles :
                LET e == mergedProfiles[i]
                    ls == ProfilesAt(localProfiles, e.linkedin_url)
                    rs == ProfilesAt(supabaseProfiles, e.linkedin_url)
                IN  /\ e \in ls \cup rs
                    /\ (ls # {} /\ e \in rs) => \E l \in ls : StrictlyNewer(e, l)
                    /\ (ls # {} /\ \A r \in rs : \A l \in ls : ~StrictlyNewer(r, l)) => e \in ls

\* Both stores hold u1 and u2 once; the remote u1 is newer and replaces the local one, the
\* remote u2 has the instant of the local one in another spelling and does not.
C36_Witness ==
    /\ pc = "merged"
    /\ Len(localProfiles) = 2
    /\ Len(supabaseProfiles) = 2
    /\ UrlsOf(localProfiles) = ProfileUrls
    /\ UrlsOf(supabaseProfiles) = ProfileUrls
    /\ Len(mergedProfiles) = 2
    /\ \E i \in DOMAIN mergedProfiles :
         /\ mergedProfiles[i].linkedin_url = "u1"
         /\ mergedProfiles[i].profile_data[1] = "supabase"
         /\ mergedProfiles[i].last_updated = "d2"
    /\ \E i \in DOMAIN mergedProfiles :
         /\ mergedProfiles[i].linkedin_url = "u2"
         /\ mergedProfiles[i].profile_data[1] = "local"
         /\ mergedProfiles[i].last_updated = "d1"
    /\ \E j \in DOMAIN supabaseProfiles :
         /\ supabaseProfiles[j].linkedin_url = "u2"
         /\ supabaseProfiles[j].last_updated = "d1b"

====
